---- MODULE Spec2Model ----
(***************************************************************************)
(* angular-api-provider: app.ApiEndpointConfig (the fluent builder),       *)
(* app.ApiEndpoint (one callable per action over a $resource handle) and   *)
(* app.ApiProvider (the registry whose $get materializes the endpoints).   *)
(*                                                                         *)
(* JavaScript objects are kept in a heap (a sequence; the index is the     *)
(* object's identity), strings that the code converts are sequences of     *)
(* characters, and property lookup follows own property, then prototype.   *)
(***************************************************************************)
EXTENDS Integers, Sequences, FiniteSets, TLC

VARIABLES
    heap,       \* the app.ApiEndpointConfig objects ever created; index = identity
    baseRoute,  \* app.ApiProvider: this.baseRoute
    endpoints,  \* app.ApiProvider: this.endpoints, name -> identity of a config
    services,   \* the mappings returned by $get, in call order
    requests,   \* the action callables invoked on materialized endpoints
    log         \* the calls made on the provider and on config handles, with results

vars == <<heap, baseRoute, endpoints, services, requests, log>>

----------------------------------------------------------------------------
(* Bounds of the exploration. *)

MaxCalls == 5
MaxBuilderCalls == 3
MaxConfigs == 2
MaxServices == 1
MaxRequests == 1
MaxStack == 6

----------------------------------------------------------------------------
(* JavaScript values. *)

\* `undefined`, where a string-valued slot (params, a return value) is absent.
Undefined == "undefined"

\* An object with no own property; also an absent `options` argument, which
\* angular.extend skips exactly as it skips {}.
EmptyObject == [k \in {} |-> Undefined]

GET == <<"G", "E", "T">>
PUT == <<"P", "U", "T">>
POST == <<"P", "O", "S", "T">>
PATCH == <<"P", "A", "T", "C", "H">>
DELETE == <<"D", "E", "L", "E", "T", "E">>

UpperOf == [c \in {"g", "e", "t", "p", "u", "o", "s", "a", "c", "h", "d", "l"} |->
              CASE c = "g" -> "G" [] c = "e" -> "E" [] c = "t" -> "T"
                [] c = "p" -> "P" [] c = "u" -> "U" [] c = "o" -> "O"
                [] c = "s" -> "S" [] c = "a" -> "A" [] c = "c" -> "C"
                [] c = "h" -> "H" [] c = "d" -> "D" [] c = "l" -> "L"]

\* String.prototype.toUpperCase, on a string given as its characters.
toUpperCase(s) == [i \in DOMAIN s |-> IF s[i] \in DOMAIN UpperOf THEN UpperOf[s[i]] ELSE s[i]]

\* angular.extend(dst, src): every key of src is written over dst.
extend(dst, src) ==
    [k \in DOMAIN dst \cup DOMAIN src |-> IF k \in DOMAIN src THEN src[k] ELSE dst[k]]

\* obj.hasOwnProperty(key)
Has(obj, key) == key \in DOMAIN obj

\* A JavaScript truth test of an option value (booleans only occur here).
Truthy(obj, key) == key \in DOMAIN obj /\ obj[key] = TRUE

----------------------------------------------------------------------------
(* app.ApiEndpointConfig *)

\* The builder methods as found through the prototype, before an own property
\* of the same name shadows them.
routeMethod == "ApiEndpointConfig.prototype.route"
modelMethod == "ApiEndpointConfig.prototype.model"

\* Return values of a call on a config handle.
RetSelf == [kind |-> "self"]
RetUndefined == [kind |-> "undefined"]
RetTypeError == [kind |-> "TypeError"]

\* actions[name] = spec: a new key goes last in the object's key order, an
\* existing key keeps its place.
SetAction(cfg, name, spec) ==
    [cfg EXCEPT !.actions = (name :> spec) @@ cfg.actions,
                !.order = IF name \in DOMAIN cfg.actions THEN cfg.order
                          ELSE Append(cfg.order, name)]

\* A variant: addHttpAction that merges into the ActionSpec already stored.
addHttpActionMerging(cfg, method, name, params, options) ==
    [cfg |-> SetAction(cfg, name,
                extend(IF name \in DOMAIN cfg.actions THEN cfg.actions[name] ELSE EmptyObject,
                       extend([method |-> toUpperCase(method), params |-> params], options))),
     ret |-> RetSelf]

addHttpAction(cfg, method, name, params, options) ==
    [cfg |-> SetAction(cfg, name,
                extend([method |-> toUpperCase(method), params |-> params], options)),
     ret |-> RetSelf]

\* A variant: enableQuery that stores a fresh {isArray: true}.
enableQueryReplacing(cfg, name) ==
    LET n == IF name \in {Undefined, ""} THEN "query" ELSE name
    IN  [cfg |-> SetAction(cfg, n, [isArray |-> TRUE]), ret |-> RetSelf]

enableQuery(cfg, name) ==
    LET n == IF name \in {Undefined, ""} THEN "query" ELSE name
        old == IF n \in DOMAIN cfg.actions THEN cfg.actions[n] ELSE EmptyObject
    IN  [cfg |-> SetAction(cfg, n, extend(old, [isArray |-> TRUE])), ret |-> RetSelf]

\* The default actions, in the key order of the object literal.
defaultActions == <<[method |-> GET, alias |-> "get"],
                    [method |-> PUT, alias |-> "update"],
                    [method |-> POST, alias |-> "save"],
                    [method |-> PATCH, alias |-> "patch"],
                    [method |-> DELETE, alias |-> "remove"]>>

RECURSIVE AddDefaults(_, _)
AddDefaults(cfg, i) ==
    IF i > Len(defaultActions) THEN cfg
    ELSE AddDefaults(addHttpAction(cfg, defaultActions[i].method, defaultActions[i].alias,
                                   Undefined, EmptyObject).cfg, i + 1)

\* new app.ApiEndpointConfig()
ApiEndpointConfig ==
    AddDefaults([route |-> routeMethod, model |-> modelMethod,
                 actions |-> EmptyObject, order |-> <<>>], 1)

\* cfg.route(r): `this.route = route` stores the template in the own property
\* `route`, which from then on shadows the method: a later cfg.route(...) calls
\* a string.
route(cfg, r) ==
    IF cfg.route = routeMethod
    THEN [cfg |-> [cfg EXCEPT !.route = r], ret |-> RetSelf]
    ELSE [cfg |-> cfg, ret |-> RetTypeError]

\* cfg.model(m): `this.model = model` shadows the method with the factory, so a
\* later cfg.model(x) calls the factory as a plain function (this = cfg). The
\* factories here are constructors that define hooks only: the call stores
\* nothing in the config and returns undefined.
model(cfg, m) ==
    IF cfg.model = modelMethod
    THEN [cfg |-> [cfg EXCEPT !.model = m], ret |-> RetSelf]
    ELSE [cfg |-> cfg, ret |-> RetUndefined]

----------------------------------------------------------------------------
(* app.ApiEndpoint: construction. An endpoint is its own properties; a name    *)
(* that is no own property is looked up on the prototype.                      *)

ConfigRef(id) == [t |-> "config", ref |-> id]
Injector == [t |-> "$injector"]
Resource(url, names) == [t |-> "resource", url |-> url, actions |-> names]
Method(name) == [t |-> "method", name |-> name]
Bound(fn, arg) == [t |-> "bound", fn |-> fn, arg |-> arg]
NoValue == [t |-> "undefined"]

PrototypeMethods == {"instantiateModel", "request", "getRequestWithModel",
                     "saveRequestWithModel"}

\* self[name]
Lookup(self, name) ==
    IF name \in DOMAIN self.own THEN self.own[name]
    ELSE IF name \in PrototypeMethods THEN Method(name)
    ELSE NoValue

\* The body of the forEach callback up to the bind: `action.model` is read from
\* the ActionSpec, and self.request and the wrappers are read from self as it
\* is when the action is reached.
ActionMethod(self, cfg, action) ==
    IF Truthy(action, "model") /\ Has(action, "method") /\ action["method"] = GET
    THEN Lookup(self, "getRequestWithModel")
    ELSE IF Truthy(action, "model") /\ Has(action, "method") /\ action["method"] \in {PUT, POST}
    THEN Lookup(self, "saveRequestWithModel")
    ELSE Lookup(self, "request")

\* angular.forEach(endpointConfig.actions, ...): in key order,
\* self[actionName] = angular.bind(self, actionMethod, actionName).
RECURSIVE Attach(_, _, _)
Attach(self, cfg, i) ==
    IF i > Len(cfg.order) THEN self
    ELSE LET name == cfg.order[i]
             fn == ActionMethod(self, cfg, cfg.actions[name])
         IN  Attach([self EXCEPT !.own = (name :> Bound(fn, name)) @@ self.own], cfg, i + 1)

\* new app.ApiEndpoint(base, config, $injector, $resource), id the identity of
\* the config cfg. The URL handed to $resource is kept as the two strings
\* that are concatenated.
ApiEndpoint(base, id, cfg) ==
    Attach([own |-> ("config" :> ConfigRef(id)) @@ ("$injector" :> Injector)
                    @@ ("resource" :> Resource(<<base, cfg.route>>, DOMAIN cfg.actions))],
           cfg, 1)

----------------------------------------------------------------------------
(* app.ApiEndpoint: the callables. A call returns either by throwing or with  *)
(* a promise; `sent` holds the calls made on the $resource handle, `hooks` the *)
(* model hooks run, `conts` the number of read-with-model callbacks chained    *)
(* on the promise handed back.                                                 *)

Str(s) == [t |-> "string", s |-> s]
Params(s) == [t |-> "params", s |-> s]
Obj(ref, fields, hook) == [t |-> "object", ref |-> ref, fields |-> fields, beforeSave |-> hook]
Arg(args, i) == IF i <= Len(args) THEN args[i] ELSE NoValue

\* angular.copy(v): a new object with the same properties (the hook included).
copy(v) == IF v.t = "object" THEN [v EXCEPT !.ref = "copy"] ELSE v

Throw(err, hooks) == [threw |-> TRUE, error |-> err, sent |-> <<>>, hooks |-> hooks, conts |-> 0]
Promise(sent) == [threw |-> FALSE, error |-> "", sent |-> sent, hooks |-> <<>>, conts |-> 0]
HookRun(hook, failed) == [hook |-> hook, failed |-> failed]

\* request(action, params, data): this.resource[action](params, data).$promise
request(self, args) ==
    LET res == Lookup(self, "resource")
        action == Arg(args, 1)
    IN  IF res.t # "resource" \/ action.t # "string" THEN Throw("TypeError", <<>>)
        ELSE IF action.s \notin res.actions THEN Throw("TypeError", <<>>)
        ELSE Promise(<<[action |-> action.s, params |-> Arg(args, 2), data |-> Arg(args, 3)]>>)

RECURSIVE Eval(_, _, _, _)
RECURSIVE getRequestWithModel(_, _, _)
RECURSIVE saveRequestWithModel(_, _, _)
RECURSIVE saveRequestRejecting(_, _, _)

\* getRequestWithModel(action, params): this.request(action, params), then one
\* callback chained on its promise.
getRequestWithModel(self, args, fuel) ==
    LET r == Eval(self, Lookup(self, "request"), <<Arg(args, 1), Arg(args, 2)>>, fuel)
    IN  IF r.threw THEN r ELSE [r EXCEPT !.conts = @ + 1]

\* A variant: a failing beforeSave turned into a promise in place of a throw.
saveRequestRejecting(self, args, fuel) ==
    LET m == copy(Arg(args, 3))
        hooked == m.t = "object" /\ m.beforeSave # "none"
        saved == IF hooked THEN [m EXCEPT !.fields = extend(@, [saved |-> TRUE])] ELSE m
        r == Eval(self, Lookup(self, "request"), <<Arg(args, 1), Arg(args, 2), saved>>, fuel)
    IN  IF hooked /\ m.beforeSave = "throws"
        THEN [Promise(<<>>) EXCEPT !.error = "beforeSave failed",
                                   !.hooks = <<HookRun("beforeSave", TRUE)>>]
        ELSE [r EXCEPT !.hooks = (IF hooked THEN <<HookRun("beforeSave", FALSE)>> ELSE <<>>) \o @]

\* saveRequestWithModel(action, params, data): beforeSave runs on a copy of
\* data, before and outside any promise; the copy goes to this.request.
saveRequestWithModel(self, args, fuel) ==
    LET m == copy(Arg(args, 3))
        hooked == m.t = "object" /\ m.beforeSave # "none"
        saved == IF hooked THEN [m EXCEPT !.fields = extend(@, [saved |-> TRUE])] ELSE m
        r == Eval(self, Lookup(self, "request"), <<Arg(args, 1), Arg(args, 2), saved>>, fuel)
    IN  IF hooked /\ m.beforeSave = "throws"
        THEN Throw("beforeSave failed", <<HookRun("beforeSave", TRUE)>>)
        ELSE [r EXCEPT !.hooks = (IF hooked THEN <<HookRun("beforeSave", FALSE)>> ELSE <<>>) \o @]

\* f(args...) with this = self: angular.bind puts the bound argument first; a
\* value that is no function throws, and so does a call chain deeper than the
\* stack.
Eval(self, f, args, fuel) ==
    IF fuel = 0 THEN Throw("RangeError", <<>>)
    ELSE IF f.t = "bound" THEN Eval(self, f.fn, <<Str(f.arg)>> \o args, fuel - 1)
    ELSE IF f.t = "method" /\ f.name = "request" THEN request(self, args)
    ELSE IF f.t = "method" /\ f.name = "getRequestWithModel"
    THEN getRequestWithModel(self, args, fuel - 1)
    ELSE IF f.t = "method" /\ f.name = "saveRequestWithModel"
    THEN saveRequestWithModel(self, args, fuel - 1)
    ELSE Throw("TypeError", <<>>)

\* The model constructors of the application: Faulty's afterLoad throws.
AfterLoadThrows(factory) == factory = "Faulty"

\* instantiateModel(data): $injector.instantiate(this.config.model), the raw
\* fields copied onto the instance, then afterLoad. this.config.model is the
\* builder method `model` while no factory was set: instantiating it asks the
\* injector for a service named after its parameter.
instantiateModel(self, h, item) ==
    IF Lookup(self, "$injector").t # "$injector" \/ Lookup(self, "config").t # "config"
    THEN [ok |-> FALSE, error |-> "TypeError", hooks |-> <<>>, model |-> NoValue]
    ELSE LET factory == h[Lookup(self, "config").ref].model
         IN  IF factory = modelMethod
             THEN [ok |-> FALSE, error |-> "Unknown provider: modelProvider",
                   hooks |-> <<>>, model |-> NoValue]
             ELSE IF AfterLoadThrows(factory)
             THEN [ok |-> FALSE, error |-> "afterLoad failed",
                   hooks |-> <<HookRun("afterLoad", TRUE)>>, model |-> NoValue]
             ELSE [ok |-> TRUE, error |-> "",
                   hooks |-> <<HookRun("afterLoad", FALSE)>>,
                   model |-> [t |-> "model", factory |-> factory, fields |-> item.fields,
                              afterLoad |-> 1]]

RECURSIVE HooksUpTo(_, _)
HooksUpTo(made, k) == IF k = 0 THEN <<>> ELSE HooksUpTo(made, k - 1) \o made[k].hooks

\* The callback of getRequestWithModel on response: response.data becomes the
\* model instance(s), and the callback returns nothing, so the promise it
\* feeds resolves with undefined. The first throwing instantiateModel ends it.
ReadCallback(self, h, response) ==
    IF response.t # "response"
    THEN [ok |-> FALSE, error |-> "TypeError", hooks |-> <<>>, response |-> response]
    ELSE LET items == response.data.items
             made == [k \in DOMAIN items |-> instantiateModel(self, h, items[k])]
             bad == {k \in DOMAIN items : ~made[k].ok}
             first == CHOOSE k \in bad : \A j \in bad : k <= j
         IN  IF bad # {}
             THEN [ok |-> FALSE, error |-> made[first].error,
                   hooks |-> HooksUpTo(made, first), response |-> response]
             ELSE [ok |-> TRUE, error |-> "", hooks |-> HooksUpTo(made, Len(items)),
                   response |-> [response EXCEPT !.data.items =
                                    [k \in DOMAIN items |-> made[k].model]]]

\* The promise a callable handed back, once the transport resolved with
\* response: as is for a plain request; through the chained callbacks
\* otherwise (a second callback is handed the first one's undefined).
Settle(self, h, conts, response) ==
    IF conts = 0
    THEN [state |-> "resolved", error |-> "", hooks |-> <<>>, value |-> response,
          response |-> response]
    ELSE LET cb == ReadCallback(self, h, response)
         IN  IF ~cb.ok
             THEN [state |-> "rejected", error |-> cb.error, hooks |-> cb.hooks,
                   value |-> NoValue, response |-> cb.response]
             ELSE IF conts > 1
             THEN [state |-> "rejected", error |-> "TypeError", hooks |-> cb.hooks,
                   value |-> NoValue, response |-> cb.response]
             ELSE [state |-> "resolved", error |-> "", hooks |-> cb.hooks,
                   value |-> NoValue, response |-> cb.response]

----------------------------------------------------------------------------
(* app.ApiProvider *)

\* A variant: endpoint(name) that hands back the config already stored.
endpointReusing(h, eps, name) ==
    IF name \in DOMAIN eps
    THEN [heap |-> h, endpoints |-> eps, ret |-> eps[name]]
    ELSE [heap |-> Append(h, ApiEndpointConfig),
          endpoints |-> (name :> Len(h) + 1) @@ eps, ret |-> Len(h) + 1]

\* endpoint(name): always a new config, stored under name.
endpoint(h, eps, name) ==
    [heap |-> Append(h, ApiEndpointConfig),
     endpoints |-> (name :> Len(h) + 1) @@ eps,
     ret |-> Len(h) + 1]

\* A variant: $get that builds every endpoint on the initial base route.
getInitialBase(base, eps, h) ==
    [name \in DOMAIN eps |-> ApiEndpoint("", eps[name], h[eps[name]])]

\* $get: one ApiEndpoint per registered name.
get(base, eps, h) ==
    [name \in DOMAIN eps |-> ApiEndpoint(base, eps[name], h[eps[name]])]

----------------------------------------------------------------------------
(* Inputs. *)

Routes == {"songs/:id", "albums/:id"}
Factories == {"Song", "Album"}
BuilderMethods == {<<"g", "e", "t">>, <<"P", "o", "s", "t">>}
BuilderNames == {"get", "query"}
BuilderParams == {Undefined, "{id:'@id'}"}
BuilderOptions == {EmptyObject, [isArray |-> FALSE], [method |-> <<"p", "u", "t">>]}
QueryNames == {Undefined, "get", "list"}
Names == {"songs", "albums"}
BaseRoutes == {"my/app/api/", "v2/"}

----------------------------------------------------------------------------
(* Calls on a config handle h (the identity of a config in the heap). *)

Logged(entry) == log' = Append(log, entry)

CallRoute(h, r) ==
    LET res == route(heap[h], r)
    IN  /\ heap' = [heap EXCEPT ![h] = res.cfg]
        /\ Logged([op |-> "route", target |-> h, arg |-> r, ret |-> res.ret])
        /\ UNCHANGED <<baseRoute, endpoints, services, requests>>

CallModel(h, m) ==
    LET res == model(heap[h], m)
    IN  /\ heap' = [heap EXCEPT ![h] = res.cfg]
        /\ Logged([op |-> "model", target |-> h, arg |-> m, ret |-> res.ret])
        /\ UNCHANGED <<baseRoute, endpoints, services, requests>>

CallAddHttpAction(h, method, name, params, options) ==
    LET res == addHttpAction(heap[h], method, name, params, options)
    IN  /\ heap' = [heap EXCEPT ![h] = res.cfg]
        /\ Logged([op |-> "addHttpAction", target |-> h, method |-> method, name |-> name,
                   params |-> params, options |-> options, ret |-> res.ret])
        /\ UNCHANGED <<baseRoute, endpoints, services, requests>>

CallEnableQuery(h, name) ==
    LET res == enableQuery(heap[h], name)
    IN  /\ heap' = [heap EXCEPT ![h] = res.cfg]
        /\ Logged([op |-> "enableQuery", target |-> h, name |-> name, ret |-> res.ret])
        /\ UNCHANGED <<baseRoute, endpoints, services, requests>>

----------------------------------------------------------------------------
(* SpecBuilder: one EndpointConfig and every builder call on it. *)

InitBuilder ==
    /\ heap = <<ApiEndpointConfig>>
    /\ baseRoute = ""
    /\ endpoints = EmptyObject
    /\ services = <<>>
    /\ requests = <<>>
    /\ log = <<>>

BuilderRoute ==
    /\ Len(log) < MaxBuilderCalls
    /\ \E r \in Routes : CallRoute(1, r)

BuilderModel ==
    /\ Len(log) < MaxBuilderCalls
    /\ \E m \in Factories : CallModel(1, m)

BuilderAddHttpAction ==
    /\ Len(log) < MaxBuilderCalls
    /\ \E method \in BuilderMethods, name \in BuilderNames,
          params \in BuilderParams, options \in BuilderOptions :
           CallAddHttpAction(1, method, name, params, options)

BuilderEnableQuery ==
    /\ Len(log) < MaxBuilderCalls
    /\ \E name \in QueryNames : CallEnableQuery(1, name)

NextBuilder ==
    \/ BuilderRoute
    \/ BuilderModel
    \/ BuilderAddHttpAction
    \/ BuilderEnableQuery

SpecBuilder == InitBuilder /\ [][NextBuilder]_vars

----------------------------------------------------------------------------
(* Calls on the provider. *)

\* A variant: setBaseRoute that also rebuilds the endpoints already handed out.
CallSetBaseRouteRebuilding(r) ==
    /\ baseRoute' = r
    /\ services' = [i \in DOMAIN services |-> get(r, endpoints, heap)]
    /\ Logged([op |-> "setBaseRoute", arg |-> r, ret |-> RetUndefined])
    /\ UNCHANGED <<heap, endpoints, requests>>

CallSetBaseRoute(r) ==
    /\ baseRoute' = r
    /\ Logged([op |-> "setBaseRoute", arg |-> r, ret |-> RetUndefined])
    /\ UNCHANGED <<heap, endpoints, services, requests>>

CallEndpoint(name) ==
    LET res == endpoint(heap, endpoints, name)
    IN  /\ heap' = res.heap
        /\ endpoints' = res.endpoints
        /\ Logged([op |-> "endpoint", name |-> name,
                   ret |-> [kind |-> "config", ref |-> res.ret]])
        /\ UNCHANGED <<baseRoute, services, requests>>

CallGet ==
    /\ services' = Append(services, get(baseRoute, endpoints, heap))
    /\ Logged([op |-> "$get", ret |-> [kind |-> "api", ref |-> Len(services) + 1]])
    /\ UNCHANGED <<heap, baseRoute, endpoints, requests>>

----------------------------------------------------------------------------
(* Spec: the provider, the config handles it returns, and $get. Nothing in   *)
(* the code orders these calls: every interleaving is explored.              *)

Init ==
    /\ heap = <<>>
    /\ baseRoute = ""
    /\ endpoints = EmptyObject
    /\ services = <<>>
    /\ requests = <<>>
    /\ log = <<>>

SetBaseRoute ==
    /\ Len(log) < MaxCalls
    /\ \E r \in BaseRoutes : CallSetBaseRoute(r)

Endpoint ==
    /\ Len(log) < MaxCalls
    /\ Len(heap) < MaxConfigs
    /\ \E name \in Names : CallEndpoint(name)

Get ==
    /\ Len(log) < MaxCalls
    /\ Len(services) < MaxServices
    /\ CallGet

ConfigRoute ==
    /\ Len(log) < MaxCalls
    /\ \E h \in DOMAIN heap : CallRoute(h, "songs/:id")

ConfigModel ==
    /\ Len(log) < MaxCalls
    /\ \E h \in DOMAIN heap : CallModel(h, "Song")

ConfigAddHttpAction ==
    /\ Len(log) < MaxCalls
    /\ \E h \in DOMAIN heap : CallAddHttpAction(h, <<"g", "e", "t">>, "list", Undefined,
                                                [isArray |-> TRUE])

ConfigEnableQuery ==
    /\ Len(log) < MaxCalls
    /\ \E h \in DOMAIN heap : CallEnableQuery(h, Undefined)

Next ==
    \/ SetBaseRoute
    \/ Endpoint
    \/ Get
    \/ ConfigRoute
    \/ ConfigModel
    \/ ConfigAddHttpAction
    \/ ConfigEnableQuery

Spec == Init /\ [][Next]_vars

----------------------------------------------------------------------------
(* Calls of the application on a materialized endpoint, and the transport.   *)

Response(payload) == [t |-> "response", data |-> payload]
Raw(fields) == [t |-> "raw", fields |-> fields]

\* api[n][member](params, data) on the endpoint n of the service s.
Invoke(s, n, member, params, data) ==
    LET self == services[s][n]
        out == Eval(self, Lookup(self, member), <<params, data>>, MaxStack)
    IN  /\ requests' = Append(requests,
              [svc |-> s, endpoint |-> n, member |-> member, params |-> params, data |-> data,
               threw |-> out.threw, error |-> out.error, sent |-> out.sent,
               hooks |-> out.hooks, conts |-> out.conts,
               state |-> IF out.threw THEN "threw" ELSE "pending",
               payload |-> NoValue, value |-> NoValue, response |-> NoValue])
        /\ UNCHANGED <<heap, baseRoute, endpoints, services, log>>

\* The transport answers request i with payload; the callbacks chained on its
\* promise run with the configs as they are then.
TransportResolve(i, payload) ==
    LET r == requests[i]
        done == Settle(services[r.svc][r.endpoint], heap, r.conts, Response(payload))
    IN  /\ r.state = "pending"
        /\ requests' = [requests EXCEPT ![i] =
              [r EXCEPT !.state = done.state, !.error = done.error,
                        !.hooks = @ \o done.hooks, !.payload = payload,
                        !.value = done.value,
                        !.response = done.response]]
        /\ UNCHANGED <<heap, baseRoute, endpoints, services, log>>

\* The transport fails request i: no callback handles the rejection, which
\* passes through every chained promise.
TransportReject(i) ==
    /\ requests[i].state = "pending"
    /\ requests' = [requests EXCEPT ![i] = [@ EXCEPT !.state = "rejected",
                                                     !.error = "transport error"]]
    /\ UNCHANGED <<heap, baseRoute, endpoints, services, log>>

----------------------------------------------------------------------------
(* SpecEndpoint: one registered endpoint, configured by a chain of builder   *)
(* calls, then materialized and called.                                      *)

ModelOption == [model |-> TRUE]

\* The builder chains: an optional model(factory), then up to two custom actions.
ModelCalls == {<<>>} \cup {<<[op |-> "model", arg |-> f]>> : f \in {"Song", "Faulty"}}
Action(method, name, options) ==
    [op |-> "addHttpAction", method |-> method, name |-> name, params |-> Undefined,
     options |-> options]
Wrapped == {Action(<<"g", "e", "t">>, "list", ModelOption),
            Action(<<"p", "o", "s", "t">>, "store", ModelOption)}
Colliding == {Action(<<"g", "e", "t">>, n, EmptyObject) : n \in {"config", "resource", "request"}}
ActionCalls == {<<>>} \cup {<<a>> : a \in Wrapped \cup Colliding}
                      \cup {<<a, b>> : a \in Colliding, b \in Wrapped}
Chains == {m \o a : m \in ModelCalls, a \in ActionCalls}

\* One call of a chain on the config cfg.
Apply(cfg, call) ==
    IF call.op = "model" THEN model(cfg, call.arg)
    ELSE addHttpAction(cfg, call.method, call.name, call.params, call.options)

RECURSIVE Configured(_, _)
Configured(chain, k) ==
    IF k = 0 THEN ApiEndpointConfig ELSE Apply(Configured(chain, k - 1), chain[k]).cfg

ChainLog(chain) ==
    [k \in DOMAIN chain |->
        [target |-> 1, ret |-> Apply(Configured(chain, k - 1), chain[k]).ret] @@ chain[k]]

InitEndpoint ==
    \E chain \in Chains :
        /\ heap = <<Configured(chain, Len(chain))>>
        /\ baseRoute = ""
        /\ endpoints = ("songs" :> 1)
        /\ services = <<>>
        /\ requests = <<>>
        /\ log = <<[op |-> "endpoint", name |-> "songs", ret |-> [kind |-> "config", ref |-> 1]]>>
                  \o ChainLog(chain)

RequestParams == {Params("{id:1}")}
RequestData == {NoValue} \cup {Obj("caller", [name |-> "x"], hook) :
                                  hook \in {"none", "mutates", "throws"}}
Payloads == {[isArray |-> TRUE, items |-> <<Raw([id |-> 1]), Raw([id |-> 2])>>],
             [isArray |-> FALSE, items |-> <<Raw([id |-> 5])>>]}

\* The callables of an endpoint: the members the constructor attached.
Members(self) == {m \in DOMAIN self.own : self.own[m].t = "bound"}

Materialize ==
    /\ Len(services) < MaxServices
    /\ CallGet

Call ==
    /\ Len(requests) < MaxRequests
    /\ \E s \in DOMAIN services : \E n \in DOMAIN services[s] :
         \E member \in Members(services[s][n]), params \in RequestParams, data \in RequestData :
            Invoke(s, n, member, params, data)

Resolve == \E i \in DOMAIN requests, payload \in Payloads : TransportResolve(i, payload)

Reject == \E i \in DOMAIN requests : TransportReject(i)

NextEndpoint ==
    \/ Materialize
    \/ Call
    \/ Resolve
    \/ Reject

SpecEndpoint == InitEndpoint /\ [][NextEndpoint]_vars

----------------------------------------------------------------------------
(* Claims about the builder, under SpecBuilder. *)

Last(s) == s[Len(s)]
Calls(op) == {i \in DOMAIN log : log[i].op = op}
LastCall(op) == CHOOSE i \in Calls(op) : \A j \in Calls(op) : j <= i

\* C4 (as claimed): every route(template) and model(factory) call on a config
\* succeeds and returns the config itself, and afterwards the route template
\* (the model factory) is the argument of the last such call.
C4_LastWriteWins ==
    /\ \A i \in Calls("route") \cup Calls("model") : log[i].ret = RetSelf
    /\ Calls("route") # {} => heap[1].route = log[LastCall("route")].arg
    /\ Calls("model") # {} => heap[1].model = log[LastCall("model")].arg

\* C5: the five default actions are present with their default methods
\* right after construction, and each stays present with its default method
\* through route, model, addHttpAction and enableQuery calls unless
\* addHttpAction was called with that name.
C5_DefaultActionsKept ==
    \A d \in DOMAIN defaultActions :
        LET a == defaultActions[d].alias
        IN  /\ Has(heap[1].actions, a)
            /\ \/ \E i \in Calls("addHttpAction") : log[i].name = a
               \/ /\ Has(heap[1].actions[a], "method")
                  /\ heap[1].actions[a]["method"] = defaultActions[d].method

\* C5's case: enableQuery was called on a default action that addHttpAction
\* never touched, next to a route or model call.
C5_Witness ==
    /\ \E i \in Calls("enableQuery") : log[i].name = "get"
    /\ \A i \in Calls("addHttpAction") : log[i].name # "get"
    /\ Calls("route") \cup Calls("model") # {}
    /\ Truthy(heap[1].actions["get"], "isArray")

\* C6 (as claimed): after addHttpAction(method, name, params, options) the
\* ActionSpec under name has the upper-cased method argument as its method, the
\* given default parameters and the given extra options.
C6_MethodIsUpperCasedArgument ==
    (log # <<>> /\ Last(log).op = "addHttpAction") =>
        LET e == Last(log)
            spec == heap[1].actions[e.name]
        IN  /\ spec["method"] = toUpperCase(e.method)
            /\ spec["params"] = e.params
            /\ \A k \in DOMAIN e.options : spec[k] = e.options[k]

\* C6 (amended): addHttpAction overwrites. The ActionSpec under name has exactly
\* the keys method, params and those of the extra options; each extra option is
\* stored as given, also under the keys method and params, where it replaces the
\* upper-cased method argument and the default parameters; nothing of the
\* ActionSpec stored before survives, and no other action name changes.
C6_Overwrite ==
    [][(log' # log /\ Last(log').op = "addHttpAction") =>
        LET e == Last(log')
            before == heap[1].actions
            after == heap'[1].actions
        IN  /\ DOMAIN after = DOMAIN before \cup {e.name}
            /\ \A n \in DOMAIN before \ {e.name} : after[n] = before[n]
            /\ DOMAIN after[e.name] = {"method", "params"} \cup DOMAIN e.options
            /\ \A k \in DOMAIN e.options : after[e.name][k] = e.options[k]
            /\ ~Has(e.options, "method") => after[e.name]["method"] = toUpperCase(e.method)
            /\ ~Has(e.options, "params") => after[e.name]["params"] = e.params
            /\ e.ret = RetSelf]_vars

\* C6's case: addHttpAction on a name whose ActionSpec carried the isArray flag
\* of an earlier enableQuery.
C6_Witness ==
    /\ Len(log) >= 2
    /\ Last(log).op = "addHttpAction"
    /\ log[Len(log) - 1].op = "enableQuery"
    /\ log[Len(log) - 1].name = Last(log).name
    /\ ~Has(heap[1].actions[Last(log).name], "isArray")

----------------------------------------------------------------------------
(* Claims about the provider, under Spec. *)

\* The calls of operation op among the first p - 1 calls.
CallsBefore(op, p) == {i \in Calls(op) : i < p}
LastBefore(S) == CHOOSE i \in S : \A j \in S : j <= i
EndpointCallsBefore(name, p) == {i \in CallsBefore("endpoint", p) : log[i].name = name}

\* C1 (as claimed): two calls endpoint(n) return the same EndpointConfig
\* object, which is the config stored under n.
C1_SameConfigReturned ==
    \A i, j \in Calls("endpoint") :
        log[i].name = log[j].name =>
            /\ log[i].ret.ref = log[j].ret.ref
            /\ endpoints[log[i].name] = log[i].ret.ref

\* C1 (amended): every call endpoint(n) creates a new EndpointConfig that holds
\* the five default actions and nothing else, stores it under n in place of
\* the config stored there before, and returns it; the configs created before
\* keep their identity and their state, so configuration made through an
\* earlier handle of n stays on the earlier object.
C1_EndpointCreates ==
    [][(log' # log /\ Last(log').op = "endpoint") =>
        LET e == Last(log')
        IN  /\ e.ret.ref \notin DOMAIN heap
            /\ DOMAIN heap' = DOMAIN heap \cup {e.ret.ref}
            /\ heap'[e.ret.ref] = ApiEndpointConfig
            /\ endpoints'[e.name] = e.ret.ref
            /\ \A h \in DOMAIN heap : heap'[h] = heap[h]
            /\ \A n \in DOMAIN endpoints \ {e.name} : endpoints'[n] = endpoints[n]]_vars

\* C1's case: endpoint(n) called a second time after a builder call on the
\* handle the first call returned.
C1_Witness ==
    /\ log # <<>> /\ Last(log).op = "endpoint"
    /\ \E i \in EndpointCallsBefore(Last(log).name, Len(log)) :
          /\ heap[log[i].ret.ref] # ApiEndpointConfig
          /\ log[i].ret.ref # Last(log).ret.ref
    /\ heap[endpoints[Last(log).name]] = ApiEndpointConfig

\* C8: the mapping a $get call returns has as keys exactly the names passed to
\* endpoint before it, and under each name an Endpoint built from the config
\* the registry holds for that name and on the base route of the last
\* setBaseRoute call before it (the empty string if there was none).
C8_Materialization ==
    \A p \in Calls("$get") :
        LET api == services[log[p].ret.ref]
            base == IF CallsBefore("setBaseRoute", p) = {} THEN ""
                    ELSE log[LastBefore(CallsBefore("setBaseRoute", p))].arg
        IN  /\ DOMAIN api = {log[i].name : i \in CallsBefore("endpoint", p)}
            /\ \A n \in DOMAIN api :
                  /\ api[n].own["config"] =
                        ConfigRef(log[LastBefore(EndpointCallsBefore(n, p))].ret.ref)
                  /\ api[n].own["resource"].url[1] = base

\* C8's case: $get after a base route was set and then overwritten, with an
\* endpoint registered.
C8_Witness ==
    \E p \in Calls("$get") :
        /\ \E i, j \in CallsBefore("setBaseRoute", p) : i < j /\ log[i].arg # log[j].arg
        /\ CallsBefore("endpoint", p) # {}

\* The configs the materialized endpoints refer to.
\* C9 (as claimed): once a service is materialized, no call changes the
\* registry's base route, its registered endpoints, or a config that a
\* materialized Endpoint consults.
C9_FrozenAfterMaterialization ==
    [][services # <<>> =>
        /\ baseRoute' = baseRoute
        /\ endpoints' = endpoints
        /\ \A s \in DOMAIN services : \A n \in DOMAIN services[s] :
              heap'[services[s][n].own["config"].ref] =
                heap[services[s][n].own["config"].ref]]_vars

\* C9 (amended): materialization freezes only what the Endpoint computed in
\* its constructor. No later setBaseRoute, endpoint or builder call changes a
\* materialized Endpoint: its resource handle (built on the base route and the
\* route of that moment), the identity of the config it refers to, and its
\* callables with their strategies stay as built. The registry's base route
\* and endpoints and the config object itself stay mutable.
C9_MaterializedEndpointsKept ==
    [][\A s \in DOMAIN services : s \in DOMAIN services' /\ services'[s] = services[s]]_vars

\* C9's case: after $get, the base route was overwritten and a builder call
\* changed a config that a materialized Endpoint refers to.
C9_Witness ==
    \E s \in DOMAIN services : \E n \in DOMAIN services[s] :
        LET e == services[s][n]
        IN  /\ e.own["resource"].url[1] # baseRoute
            /\ e.own["resource"].url[2] # heap[e.own["config"].ref].route

----------------------------------------------------------------------------
(* Claims about the endpoint's callables, under SpecEndpoint. *)

Request(i) == requests[i]
ConfigOf(r) == heap[endpoints[r.endpoint]]
ActionOf(r) == ConfigOf(r).actions[r.member]
MethodOf(r) == IF Has(ActionOf(r), "method") THEN ActionOf(r)["method"] ELSE <<>>
ModelSet(r) == ConfigOf(r).model # modelMethod
Failed(r, hook) == \E k \in DOMAIN r.hooks : r.hooks[k].hook = hook /\ r.hooks[k].failed
Ran(r, hook) == {k \in DOMAIN r.hooks : r.hooks[k].hook = hook}

\* C2 (as claimed): with a model factory set by model(factory), a call of a GET
\* action that the transport answers resolves with model instances in place
\* of the raw payload: as many as the payload has objects, in order, each with
\* the raw fields and one afterLoad call.
C2_ReadWithModel ==
    \A i \in DOMAIN requests :
        LET r == Request(i)
        IN  (ModelSet(r) /\ MethodOf(r) = GET /\ r.payload # NoValue /\ ~Failed(r, "afterLoad")) =>
                /\ r.state = "resolved"
                /\ r.value.t = "response"
                /\ Len(r.value.data.items) = Len(r.payload.items)
                /\ \A k \in DOMAIN r.payload.items :
                      /\ r.value.data.items[k].t = "model"
                      /\ r.value.data.items[k].fields = r.payload.items[k].fields
                      /\ r.value.data.items[k].afterLoad = 1
                /\ Cardinality(Ran(r, "afterLoad")) = Len(r.payload.items)

\* C3 (as claimed): with a model factory set, a call of a PUT or POST action
\* with a payload d runs beforeSave on a copy of d and hands the transport
\* that copy, never d itself; with no payload, no hook runs and the transport
\* gets an absent payload.
C3_WriteWithModel ==
    \A i \in DOMAIN requests :
        LET r == Request(i)
        IN  (ModelSet(r) /\ MethodOf(r) \in {PUT, POST} /\ ~r.threw) =>
                /\ Len(r.sent) = 1
                /\ IF r.data.t = "object"
                   THEN /\ r.sent[1].data.t = "object"
                        /\ r.sent[1].data.ref # r.data.ref
                        /\ r.data.beforeSave # "none" =>
                              /\ Ran(r, "beforeSave") # {}
                              /\ Has(r.sent[1].data.fields, "saved")
                   ELSE /\ Ran(r, "beforeSave") = {}
                        /\ r.sent[1].data = NoValue

\* C7 (as claimed): a failing afterLoad or beforeSave surfaces as a rejection
\* of the pending result that the callable returned.
C7_HookFailureRejects ==
    \A i \in DOMAIN requests :
        LET r == Request(i)
        IN  /\ Failed(r, "afterLoad") =>
                ~r.threw /\ r.state = "rejected" /\ r.error = "afterLoad failed"
            /\ Failed(r, "beforeSave") =>
                ~r.threw /\ r.state = "rejected" /\ r.error = "beforeSave failed"

\* C7 (amended): a failing afterLoad surfaces as a rejection of the pending
\* result that the callable returned, after the one transport call. A failing
\* beforeSave is thrown out of the callable itself: the callable returns no
\* pending result and makes no transport call.
C7_HookFailureSurfaces ==
    \A i \in DOMAIN requests :
        LET r == Request(i)
        IN  /\ Failed(r, "afterLoad") =>
                /\ ~r.threw /\ r.state = "rejected" /\ r.error = "afterLoad failed"
                /\ Len(r.sent) = 1
            /\ Failed(r, "beforeSave") =>
                /\ r.threw /\ r.state = "threw" /\ r.error = "beforeSave failed"
                /\ r.sent = <<>>

\* C7's case: a write-with-model callable was called with a payload whose
\* beforeSave fails.
C7_Witness ==
    \E i \in DOMAIN requests :
        /\ Failed(Request(i), "beforeSave")
        /\ Request(i).data.t = "object" /\ Request(i).data.beforeSave = "throws"
        /\ Lookup(services[Request(i).svc][Request(i).endpoint], Request(i).member).fn
             = Method("saveRequestWithModel")

\* C10 (as claimed): whatever the action names, a constructed Endpoint still
\* holds its config, its injector and its resource handle, every action a is
\* a member bound to a strategy taken from the prototype, and a call of
\* member a makes exactly one call of action a on the resource handle.
C10_EndpointIntact ==
    /\ \A s \in DOMAIN services : \A n \in DOMAIN services[s] :
          LET self == services[s][n]
          IN  /\ self.own["config"] = ConfigRef(endpoints[n])
              /\ self.own["$injector"] = Injector
              /\ self.own["resource"].t = "resource"
              /\ \A a \in DOMAIN heap[endpoints[n]].actions :
                    /\ self.own[a].t = "bound"
                    /\ self.own[a].arg = a
                    /\ self.own[a].fn.t = "method"
    /\ \A i \in DOMAIN requests :
          ~Failed(Request(i), "beforeSave") =>
              /\ Len(Request(i).sent) = 1
              /\ Request(i).sent[1].action = Request(i).member

====
